---- MODULE Spec2Model ----
(***************************************************************************)
(* A model of the blog backend: the users and posts tables behind          *)
(* src/db.rs, the request pipeline of src/router.rs (identity resolver,    *)
(* then handler), the handlers of src/handler/post.rs and                  *)
(* src/handler/user.rs, and the credential hasher of                       *)
(* src/utils/password.rs.                                                   *)
(*                                                                         *)
(* Every SQL statement is one atomic step.  A request task is suspended    *)
(* only at its database calls, so a handler with one statement is one      *)
(* action (extractors and validation, the statement, the mapping of its    *)
(* result to a response) and update_user_password, with two statements,    *)
(* is two.  The extractors Path, Json and Query run when the handler is    *)
(* called, so a request in flight between the identity resolver and its    *)
(* handler holds only its route and the identity context.                  *)
(*                                                                         *)
(* Not modelled: the columns no handler in src/ writes or reads apart      *)
(* from copying them (username, email, bio, views, created_at,             *)
(* updated_at), and the /auth routes, whose handler is not in src/.        *)
(***************************************************************************)
EXTENDS Integers, Sequences, FiniteSets, TLC

VARIABLES users, posts, nextId, reqs, out, results,
          unit_pc, unit_p, unit_q, unit_hash, unit_cmp, rngDraws

vars == <<users, posts, nextId, reqs, out, results,
          unit_pc, unit_p, unit_q, unit_hash, unit_cmp, rngDraws>>

sysVars == <<users, posts, nextId, reqs, out, results>>
unitVars == <<unit_pc, unit_p, unit_q, unit_hash, unit_cmp, rngDraws>>

-----------------------------------------------------------------------------
(* Bounds of the model. *)

\* Request tasks that can be in flight at once.
NumReqs == 2
\* Post ids the store hands out (ids are fresh, never reused).
MaxPosts == 1
\* Plaintext lengths are taken within MaxPad of 0 and of MAX_PASSWORD.
MaxPad == 1
\* Posts in the table all_posts lists.
MaxListed == 2

-----------------------------------------------------------------------------
(* Strings that reach the credential hasher.  A plaintext is a sequence of *)
(* characters; "a" and "b" take one byte in UTF-8 and "E" stands for a     *)
(* two-byte character such as U+00E9.  A hash string is the PHC string     *)
(* Argon2 prints: its salt and the digest of (salt, plaintext).            *)

MAX_PASSWORD == 64

\* "$argon2id$v=19$m=19456,t=2,p=1$" (31) + salt (22) + "$" + digest (43).
PHCStringLen == 97

Chars == {"a", "b", "E"}

Utf8Width(c) == IF c = "E" THEN 2 ELSE 1

RECURSIVE Utf8Len(_)
Utf8Len(cs) == IF cs = <<>> THEN 0 ELSE Utf8Width(Head(cs)) + Utf8Len(Tail(cs))

Plain(cs) == [phc |-> FALSE, chars |-> cs, salt |-> 0, digest |-> <<>>]

\* Argon2id as an ideal hash: one digest per (salt, password bytes).
Argon2id(cs, salt) == <<salt, cs>>

PHC(salt, digest) == [phc |-> TRUE, chars |-> <<>>, salt |-> salt, digest |-> digest]

\* str::len(): the length in bytes.
StrLen(s) == IF s.phc THEN PHCStringLen ELSE Utf8Len(s.chars)

\* validator's length(): the number of characters.
CharCount(s) == IF s.phc THEN PHCStringLen ELSE Len(s.chars)

Salts == {1, 2}

\* The Result of hash_password; salted is whether it drew a salt from OsRng.
PwOk(v) == [ok |-> TRUE, err |-> "", val |-> v, salted |-> TRUE]
PwErr(e) == [ok |-> FALSE, err |-> e, val |-> Plain(<<>>), salted |-> FALSE]

\* hash_password; salt is the value SaltString::generate draws from OsRng,
\* after both tests on the plaintext.
hash_password(password, salt) ==
    IF StrLen(password) = 0 THEN PwErr("EmptyPassword")
    ELSE IF StrLen(password) > MAX_PASSWORD THEN PwErr("ExceededMaxPasswordLength")
    ELSE PwOk(PHC(salt, Argon2id(password.chars, salt)))

CmpOk(b) == [ok |-> TRUE, err |-> "", val |-> b]
CmpErr(e) == [ok |-> FALSE, err |-> e, val |-> FALSE]

\* A compare_password that maps a failed verification to Ok(true).
compare_password_always_true(hashed_password, password) ==
    IF StrLen(password) = 0 THEN CmpErr("EmptyPassword")
    ELSE IF StrLen(password) > MAX_PASSWORD THEN CmpErr("ExceededMaxPasswordLength")
    ELSE IF ~hashed_password.phc THEN CmpErr("InvalidHashFormat")
    ELSE CmpOk(TRUE)

\* compare_password(hashed_password, password).
compare_password(hashed_password, password) ==
    IF StrLen(password) = 0 THEN CmpErr("EmptyPassword")
    ELSE IF StrLen(password) > MAX_PASSWORD THEN CmpErr("ExceededMaxPasswordLength")
    ELSE IF ~hashed_password.phc THEN CmpErr("InvalidHashFormat")
    ELSE CmpOk(~password.phc
               /\ Argon2id(password.chars, hashed_password.salt) = hashed_password.digest)

Rep(c, n) == [i \in 1..n |-> c]

-----------------------------------------------------------------------------
(* The tables. *)

UserIds == {"u1", "u2"}

\* The subject of a token whose user row is gone.
GhostId == "u0"

InitPlain(u) == IF u = "u1" THEN Plain(Rep("a", 6)) ELSE Plain(Rep("b", 6))
InitName(u) == IF u = "u1" THEN "alice" ELSE "bob"

\* models.rs User.
UserRow(id, name, password) == [id |-> id, name |-> name, password |-> password]

InitUsers ==
    [u \in UserIds |-> UserRow(u, InitName(u), hash_password(InitPlain(u), 1).val)]

NoUser == UserRow("-", "", Plain(<<>>))

\* models.rs Post.
PostRow(id, author_id, title, content) ==
    [id |-> id, author_id |-> author_id, title |-> title, content |-> content]

PostIds == 1..MaxPosts

NoPosts == [p \in {} |-> PostRow(0, "-", "", "")]


-----------------------------------------------------------------------------
(* src/db.rs: each function is one SQL statement, given here as the table  *)
(* it leaves and the Result it returns (err = "" is Ok).                   *)

DbRes(err, rows) == [err |-> err, rows |-> rows]

\* sqlx::Error's Display, as e.to_string() prints it.
ErrText(err) ==
    IF err = "RowNotFound"
    THEN "no rows returned by a query that expected to return at least one row"
    ELSE "error communicating with database"

\* UserExt::get_user with Some(user_id): fetch_optional.
get_user(tbl, user_id) ==
    DbRes("", IF user_id \in DOMAIN tbl THEN <<tbl[user_id]>> ELSE <<>>)

\* UserExt::update_user_name: fetch_one of UPDATE ... WHERE id = $2 RETURNING.
update_user_name(tbl, user_id, name) ==
    IF user_id \in DOMAIN tbl
    THEN LET t == [tbl EXCEPT ![user_id].name = name]
         IN  [users |-> t, res |-> DbRes("", <<t[user_id]>>)]
    ELSE [users |-> tbl, res |-> DbRes("RowNotFound", <<>>)]

\* UserExt::update_user_password.
update_user_password(tbl, user_id, new_password) ==
    IF user_id \in DOMAIN tbl
    THEN LET t == [tbl EXCEPT ![user_id].password = new_password]
         IN  [users |-> t, res |-> DbRes("", <<t[user_id]>>)]
    ELSE [users |-> tbl, res |-> DbRes("RowNotFound", <<>>)]

\* UserExt::create_post: INSERT ... RETURNING; id is the key the store generates.
create_post(tbl, id, author_id, title, content) ==
    LET row == PostRow(id, author_id, title, content)
    IN  [posts |-> [p \in DOMAIN tbl \cup {id} |-> IF p = id THEN row ELSE tbl[p]],
         res |-> DbRes("", <<row>>)]

\* UserExt::get_post: fetch_optional of SELECT ... WHERE id = $1.
get_post(tbl, post_id) ==
    DbRes("", IF post_id \in DOMAIN tbl THEN <<tbl[post_id]>> ELSE <<>>)

\* An update_post whose WHERE clause names the id alone.
update_post_without_owner(tbl, post_id, author_id, title, content) ==
    IF post_id \in DOMAIN tbl
    THEN LET t == [tbl EXCEPT ![post_id].title = title, ![post_id].content = content]
         IN  [posts |-> t, res |-> DbRes("", <<t[post_id]>>)]
    ELSE [posts |-> tbl, res |-> DbRes("RowNotFound", <<>>)]

\* An update_post that also writes author_id = $4.
update_post_sets_author(tbl, post_id, author_id, title, content) ==
    IF post_id \in DOMAIN tbl
    THEN LET t == [tbl EXCEPT ![post_id].title = title, ![post_id].content = content,
                              ![post_id].author_id = author_id]
         IN  [posts |-> t, res |-> DbRes("", <<t[post_id]>>)]
    ELSE [posts |-> tbl, res |-> DbRes("RowNotFound", <<>>)]

\* An update_post that tells a row of another author from a missing row.
update_post_reports_owner(tbl, post_id, author_id, title, content) ==
    IF post_id \in DOMAIN tbl /\ tbl[post_id].author_id = author_id
    THEN LET t == [tbl EXCEPT ![post_id].title = title, ![post_id].content = content]
         IN  [posts |-> t, res |-> DbRes("", <<t[post_id]>>)]
    ELSE IF post_id \in DOMAIN tbl
    THEN [posts |-> tbl, res |-> DbRes("Database", <<>>)]
    ELSE [posts |-> tbl, res |-> DbRes("RowNotFound", <<>>)]

\* UserExt::update_post: fetch_one of
\* UPDATE posts SET title, content WHERE id = $3 AND author_id = $4 RETURNING.
update_post(tbl, post_id, author_id, title, content) ==
    IF post_id \in DOMAIN tbl /\ tbl[post_id].author_id = author_id
    THEN LET t == [tbl EXCEPT ![post_id].title = title, ![post_id].content = content]
         IN  [posts |-> t, res |-> DbRes("", <<t[post_id]>>)]
    ELSE [posts |-> tbl, res |-> DbRes("RowNotFound", <<>>)]

\* A delete_post whose test of rows_affected() is inverted.
delete_post_inverted_rows_check(tbl, post_id, author_id) ==
    IF post_id \in DOMAIN tbl /\ tbl[post_id].author_id = author_id
    THEN [posts |-> [p \in DOMAIN tbl \ {post_id} |-> tbl[p]],
          res |-> DbRes("RowNotFound", <<>>)]
    ELSE [posts |-> tbl, res |-> DbRes("", <<>>)]

\* UserExt::delete_post: DELETE ... WHERE id = $1 AND author_id = $2, and
\* RowNotFound when rows_affected() is 0.
delete_post(tbl, post_id, author_id) ==
    IF post_id \in DOMAIN tbl /\ tbl[post_id].author_id = author_id
    THEN [posts |-> [p \in DOMAIN tbl \ {post_id} |-> tbl[p]], res |-> DbRes("", <<>>)]
    ELSE [posts |-> tbl, res |-> DbRes("RowNotFound", <<>>)]

\* A statement that fails for a reason of the store (a lost connection, an
\* exhausted pool): nothing is written.
PostsFailure(tbl) == [posts |-> tbl, res |-> DbRes("Database", <<>>)]
UsersFailure(tbl) == [users |-> tbl, res |-> DbRes("Database", <<>>)]


-----------------------------------------------------------------------------
(* Responses.  HttpError and its constructors are src/error.rs, which is   *)
(* not among the sources: the status each constructor carries is taken     *)
(* from its name and from the specification's status table.                *)

Json(type, message, items) == [type |-> type, message |-> message, items |-> items]

Response(status, body) == [status |-> status, body |-> body]

NoResponse == Response(0, Json("-", "", <<>>))

HttpError(status, message) == Response(status, Json("error", message, <<>>))

bad_request(message) == HttpError(400, message)
unauthorized(message) == HttpError(401, message)
not_found(message) == HttpError(404, message)
server_error(message) == HttpError(500, message)

\* axum's rejection when Extension<JWTAuthMiddleware> is absent from the request.
MissingExtension == HttpError(500, "Missing request extension")

\* dtos.rs Response { status: "success", message }.
Message(status, message) == Response(status, Json("Response", message, <<>>))

\* dtos.rs FilterUserDto::filter_user.
filter_user(user) == [id |-> user.id, name |-> user.name]

\* Whether a response body carries a user's password field.
CarriesPassword(resp) ==
    \E i \in DOMAIN resp.body.items : "password" \in DOMAIN resp.body.items[i]

-----------------------------------------------------------------------------
(* The identity resolver, src/middleware.rs, is not among the sources; it  *)
(* is modelled from section 4.3 of the specification.                      *)

NoToken == [st |-> "none", sub |-> "-"]
BadToken == [st |-> "bad", sub |-> "-"]
ValidToken(u) == [st |-> "valid", sub |-> u]

Tokens == {NoToken, BadToken} \cup {ValidToken(u) : u \in UserIds \cup {GhostId}}

\* auth: the token is extracted, verified, and its subject looked up once.
auth(token, tbl) ==
    IF token.st = "none"
    THEN [ok |-> FALSE, user |-> NoUser, resp |-> unauthorized("AuthenticationRequired")]
    ELSE IF token.st = "bad"
    THEN [ok |-> FALSE, user |-> NoUser, resp |-> unauthorized("InvalidOrExpiredToken")]
    ELSE IF get_user(tbl, token.sub).rows = <<>>
    THEN [ok |-> FALSE, user |-> NoUser, resp |-> unauthorized("AuthenticationRequired")]
    ELSE [ok |-> TRUE, user |-> get_user(tbl, token.sub).rows[1], resp |-> NoResponse]

-----------------------------------------------------------------------------
(* src/router.rs and the two route tables. *)

\* handler/post.rs post_handler.
PostRoutes ==
    {"create_post", "get_post_by_id", "all_posts", "update_post", "delete_post"}

\* handler/user.rs users_handler.
UserRoutes == {"get_me", "update_user_name", "update_user_password"}

Routes == PostRoutes \cup UserRoutes

\* A create_router that nests the post routes after the auth layer is applied.
protected_routes_without_posts == UserRoutes

\* create_router: protected_routes merges users_handler() and nests
\* post_handler() before .layer(middleware::from_fn(auth)), so the layer
\* wraps every one of their routes.
protected_routes == UserRoutes \cup PostRoutes


-----------------------------------------------------------------------------
(* src/dtos.rs: the request bodies and their validation. *)

\* PostDto: title and content, each length(min = 1).
PostDtos ==
    {[title |-> "t1", content |-> "c1"], [title |-> "t2", content |-> "c2"],
     [title |-> "", content |-> "c1"], [title |-> "t1", content |-> ""]}

\* A PostDto whose content carries no length(min = 1).
ValidPostDto_title_only(body) == Len(body.title) >= 1

ValidPostDto(body) == Len(body.title) >= 1 /\ Len(body.content) >= 1

\* NameUpdateDto: name, length(min = 1).
NameUpdateDtos == {[name |-> "carol"], [name |-> ""]}

ValidNameUpdateDto(body) == Len(body.name) >= 1

\* UserPasswordUpdateDto.
PasswordDto(new, confirm, old) ==
    [new_password |-> new, new_password_confirm |-> confirm, old_password |-> old]

UserPasswordUpdateDtos ==
    {PasswordDto(Plain(Rep("b", 6)), Plain(Rep("b", 6)), Plain(Rep("a", 6))),
     PasswordDto(Plain(Rep("a", 7)), Plain(Rep("a", 7)), Plain(Rep("b", 6))),
     PasswordDto(Plain(Rep("b", 6)), Plain(Rep("a", 6)), Plain(Rep("a", 6))),
     PasswordDto(Plain(Rep("b", 1)), Plain(Rep("b", 1)), Plain(Rep("a", 6)))}

ValidUserPasswordUpdateDto(body) ==
    /\ CharCount(body.new_password) >= 6
    /\ CharCount(body.new_password_confirm) >= 6
    /\ body.new_password_confirm = body.new_password
    /\ CharCount(body.old_password) >= 6

\* A usize or u32 as two digits in base 2^16 (the model checker's integers
\* stop short of 2^32): the number hi * 2^16 + lo.
Big(hi, lo) == [hi |-> hi, lo |-> lo]
Small(n) == Big(0, n)
IsZero(n) == n.hi = 0 /\ n.lo = 0
Pred(n) == IF n.lo > 0 THEN Big(n.hi, n.lo - 1) ELSE Big(n.hi - 1, 2^16 - 1)
Times(n, k) == Big(n.hi * k + (n.lo * k) \div (2^16), (n.lo * k) % (2^16))

\* `as u32` of a usize.
AsU32(n) == Big(n.hi % (2^16), n.lo)

\* RequestQueryDto: page and limit are Option<usize>; None is written with a
\* negative digit.  limit is an integer of the model: validation bounds it.
None == 0 - 1
NonePage == Big(None, 0)

Query(page, limit) == [page |-> page, limit |-> limit]

Queries == {Query(NonePage, None), Query(Small(1), 1), Query(Small(2), 50),
            Query(Small(0), 1), Query(Small(1), 51), Query(Big(2^16, 0), 1)}

\* The queries of the runs that are not about paging.
BasicQueries == {Query(NonePage, None), Query(Small(0), 1)}

ValidRequestQueryDto(q) ==
    /\ q.page = NonePage \/ ~IsZero(q.page)
    /\ q.limit = None \/ (q.limit >= 1 /\ q.limit <= 50)

\* (page - 1) * limit in u32 arithmetic: whether it leaves the range, and the
\* value a build without overflow checks computes.
OffsetOverflows(page, limit) == IsZero(page) \/ Times(Pred(page), limit).hi >= 2^16
OffsetWrapped(page, limit) ==
    IF IsZero(page) THEN AsU32(Times(Big(2^16 - 1, 2^16 - 1), limit))
    ELSE AsU32(Times(Pred(page), limit))

-----------------------------------------------------------------------------
(* src/handler/post.rs: each handler as the table it leaves, the Result of *)
(* its statement ("-" when it made none) and its response.  user is the    *)
(* identity context of the request, fail whether the store fails.          *)

PostsOutcome(tbl, dbres, resp) == [posts |-> tbl, dbres |-> dbres, resp |-> resp]

PostJson(row) == Json("Post", "", <<row>>)

\* A create_post that records another user than the identity context as
\* the author.
handler_create_post_other_author(tbl, id, user, body, fail) ==
    IF user = NoUser THEN PostsOutcome(tbl, "-", MissingExtension)
    ELSE IF ~ValidPostDto(body) THEN PostsOutcome(tbl, "-", bad_request("Validation error"))
    ELSE LET st == IF fail THEN PostsFailure(tbl)
                   ELSE create_post(tbl, id, CHOOSE a \in UserIds : a # user.id,
                                    body.title, body.content)
         IN  IF st.res.err # ""
             THEN PostsOutcome(st.posts, st.res.err, server_error(ErrText(st.res.err)))
             ELSE PostsOutcome(st.posts, "ok", Message(201, "Post created successfully!"))

\* handler::post::create_post.
handler_create_post(tbl, id, user, body, fail) ==
    IF user = NoUser THEN PostsOutcome(tbl, "-", MissingExtension)
    ELSE IF ~ValidPostDto(body) THEN PostsOutcome(tbl, "-", bad_request("Validation error"))
    ELSE LET st == IF fail THEN PostsFailure(tbl)
                   ELSE create_post(tbl, id, user.id, body.title, body.content)
         IN  IF st.res.err # ""
             THEN PostsOutcome(st.posts, st.res.err, server_error(ErrText(st.res.err)))
             ELSE PostsOutcome(st.posts, "ok", Message(201, "Post created successfully!"))

\* A get_post_by_id that answers "not found" to anyone but the author.
handler_get_post_by_id_owner_only(tbl, user, post_id, fail) ==
    LET res == IF fail THEN DbRes("Database", <<>>) ELSE get_post(tbl, post_id)
    IN  IF res.err # "" THEN PostsOutcome(tbl, res.err, server_error(ErrText(res.err)))
        ELSE IF res.rows = <<>> \/ res.rows[1].author_id # user.id
        THEN PostsOutcome(tbl, "ok", not_found("Post not found"))
        ELSE PostsOutcome(tbl, "ok", Response(200, PostJson(res.rows[1])))

\* handler::post::get_post_by_id; it takes no identity extractor.
handler_get_post_by_id(tbl, user, post_id, fail) ==
    LET res == IF fail THEN DbRes("Database", <<>>) ELSE get_post(tbl, post_id)
    IN  IF res.err # "" THEN PostsOutcome(tbl, res.err, server_error(ErrText(res.err)))
        ELSE IF res.rows = <<>> THEN PostsOutcome(tbl, "ok", not_found("Post not found"))
        ELSE PostsOutcome(tbl, "ok", Response(200, PostJson(res.rows[1])))

\* handler::post::update_post.
handler_update_post(tbl, user, post_id, body, fail) ==
    IF user = NoUser THEN PostsOutcome(tbl, "-", MissingExtension)
    ELSE IF ~ValidPostDto(body) THEN PostsOutcome(tbl, "-", bad_request("Validation error"))
    ELSE LET st == IF fail THEN PostsFailure(tbl)
                   ELSE update_post(tbl, post_id, user.id, body.title, body.content)
         IN  IF st.res.err # ""
             THEN PostsOutcome(st.posts, st.res.err, server_error(ErrText(st.res.err)))
             ELSE PostsOutcome(st.posts, "ok", Response(200, PostJson(st.res.rows[1])))

\* handler::post::delete_post.
handler_delete_post(tbl, user, post_id, fail) ==
    IF user = NoUser THEN PostsOutcome(tbl, "-", MissingExtension)
    ELSE LET st == IF fail THEN PostsFailure(tbl) ELSE delete_post(tbl, post_id, user.id)
         IN  IF st.res.err # ""
             THEN PostsOutcome(st.posts, st.res.err, server_error(ErrText(st.res.err)))
             ELSE PostsOutcome(st.posts, "ok", Message(200, "Post deleted successfully!"))

\* The orders in which a SELECT without ORDER BY may return the rows.
Orders(tbl) ==
    {o \in [1..Cardinality(DOMAIN tbl) -> DOMAIN tbl] :
        \A i, j \in DOMAIN o : i # j => o[i] # o[j]}

\* UserExt::get_posts: offset is computed and not used; the query has
\* neither LIMIT nor OFFSET.
get_posts(tbl, page, limit, order) ==
    DbRes("", [i \in DOMAIN order |-> tbl[order[i]]])

\* handler::post::all_posts.  checked is whether the build checks arithmetic
\* overflow (it then panics, and the request gets no response).
handler_all_posts(tbl, query, order, checked, fail) ==
    IF ~ValidRequestQueryDto(query) THEN PostsOutcome(tbl, "-", bad_request("Validation error"))
    ELSE LET page == AsU32(IF query.page = NonePage THEN Small(1) ELSE query.page)
             limit == IF query.limit = None THEN 10 ELSE query.limit
             res == IF fail THEN DbRes("Database", <<>>) ELSE get_posts(tbl, page, limit, order)
         IN  IF OffsetOverflows(page, limit) /\ checked
             THEN PostsOutcome(tbl, "-", Response(0, Json("panic", "attempt to subtract with overflow", <<>>)))
             ELSE IF res.err # ""
             THEN PostsOutcome(tbl, res.err, server_error(ErrText(res.err)))
             ELSE PostsOutcome(tbl, "ok", Response(200, Json("PostListResponseDto", "success", res.rows)))


-----------------------------------------------------------------------------
(* src/handler/user.rs. *)

UsersOutcome(tbl, dbres, resp) == [users |-> tbl, dbres |-> dbres, resp |-> resp]

UserJson(view) == Json("UserResponseDto", "success", <<view>>)

\* handler::user::get_me: the identity context, filtered.
handler_get_me(user) ==
    IF user = NoUser THEN MissingExtension ELSE Response(200, UserJson(filter_user(user)))

\* handler::user::update_user_name.
handler_update_user_name(tbl, user, body, fail) ==
    IF user = NoUser THEN UsersOutcome(tbl, "-", MissingExtension)
    ELSE IF ~ValidNameUpdateDto(body) THEN UsersOutcome(tbl, "-", bad_request("Name is required"))
    ELSE LET st == IF fail THEN UsersFailure(tbl) ELSE update_user_name(tbl, user.id, body.name)
         IN  IF st.res.err # ""
             THEN UsersOutcome(st.users, st.res.err, server_error(ErrText(st.res.err)))
             ELSE UsersOutcome(st.users, "ok",
                               Response(200, UserJson(filter_user(st.res.rows[1]))))

\* handler::user::update_user_password up to its first statement, get_user,
\* whose row it does not use.
password_get_user(tbl, user, body, fail) ==
    IF user = NoUser THEN UsersOutcome(tbl, "-", MissingExtension)
    ELSE IF ~ValidUserPasswordUpdateDto(body)
    THEN UsersOutcome(tbl, "-", bad_request("Validation error"))
    ELSE LET res == IF fail THEN DbRes("Database", <<>>) ELSE get_user(tbl, user.id)
         IN  IF res.err # "" THEN UsersOutcome(tbl, res.err, server_error(ErrText(res.err)))
             ELSE UsersOutcome(tbl, "ok", NoResponse)

\* An update_user_password that calls compare_password with the arguments
\* in the order of its signature, (user.password, old_password).
password_write_args_in_order(tbl, user, body, salt, fail) ==
    LET cmp == compare_password(user.password, body.old_password)
        hashed == hash_password(body.new_password, salt)
        st == IF fail THEN UsersFailure(tbl)
              ELSE update_user_password(tbl, user.id, hashed.val)
    IN  IF ~cmp.ok THEN UsersOutcome(tbl, "-", bad_request(cmp.err))
        ELSE IF ~cmp.val THEN UsersOutcome(tbl, "-", bad_request("WrongCredentials"))
        ELSE IF ~hashed.ok THEN UsersOutcome(tbl, "-", bad_request(hashed.err))
        ELSE IF st.res.err # ""
        THEN UsersOutcome(st.users, st.res.err, server_error(ErrText(st.res.err)))
        ELSE UsersOutcome(st.users, "ok", Message(200, "Password updated Successfully"))

\* handler::user::update_user_password from compare_password on: the
\* comparison is called with (old_password, user.password), user being the
\* identity context; then hash_password and the UPDATE.
password_write(tbl, user, body, salt, fail) ==
    LET cmp == compare_password(body.old_password, user.password)
        hashed == hash_password(body.new_password, salt)
        st == IF fail THEN UsersFailure(tbl)
              ELSE update_user_password(tbl, user.id, hashed.val)
    IN  IF ~cmp.ok THEN UsersOutcome(tbl, "-", bad_request(cmp.err))
        ELSE IF ~cmp.val THEN UsersOutcome(tbl, "-", bad_request("WrongCredentials"))
        ELSE IF ~hashed.ok THEN UsersOutcome(tbl, "-", bad_request(hashed.err))
        ELSE IF st.res.err # ""
        THEN UsersOutcome(st.users, st.res.err, server_error(ErrText(st.res.err)))
        ELSE UsersOutcome(st.users, "ok", Message(200, "Password updated Successfully"))

\* The users table by created_at, newest first.
UsersByCreatedDesc == <<"u2", "u1">>

\* UserExt::get_users: ORDER BY created_at DESC LIMIT $1 OFFSET $2.
get_users(tbl, page, limit) ==
    LET offset == OffsetWrapped(page, limit)
        n == Len(UsersByCreatedDesc)
        first == IF offset.hi > 0 \/ offset.lo > n THEN n ELSE offset.lo
        last == IF first + limit < n THEN first + limit ELSE n
    IN  DbRes("", [i \in 1..(last - first) |-> tbl[UsersByCreatedDesc[first + i]]])

\* handler::user::get_users: Ok(Json(users)) of the rows as they are.  No
\* route of users_handler names this handler.
handler_get_users(tbl, query, checked, fail) ==
    IF ~ValidRequestQueryDto(query) THEN UsersOutcome(tbl, "-", bad_request("Validation error"))
    ELSE LET page == AsU32(IF query.page = NonePage THEN Small(1) ELSE query.page)
             limit == IF query.limit = None THEN 10 ELSE query.limit
             res == IF fail THEN DbRes("Database", <<>>) ELSE get_users(tbl, page, limit)
         IN  IF OffsetOverflows(page, limit) /\ checked
             THEN UsersOutcome(tbl, "-", Response(0, Json("panic", "attempt to subtract with overflow", <<>>)))
             ELSE IF res.err # ""
             THEN UsersOutcome(tbl, res.err, server_error(ErrText(res.err)))
             ELSE UsersOutcome(tbl, "ok", Response(200, Json("Vec<User>", "", res.rows)))

-----------------------------------------------------------------------------
(* The state.                                                              *)
(*   users, posts  the two tables; nextId the next post id of the store    *)
(*   reqs          per request task: where it stands, its route, its       *)
(*                 identity context                                        *)
(*   out           what the last step answered, if it answered             *)
(*   results       per task, its answer (kept only by RaceSpec)            *)

Slots == 1..NumReqs

NoBody == [none |-> TRUE]

Req(pc, kind, user, body) == [pc |-> pc, kind |-> kind, user |-> user, body |-> body]

Idle == Req("idle", "-", NoUser, NoBody)

\* An answer: the stage that gave it, the route, the requester, what the
\* extractors took from the request, what the row was to the requester,
\* whether the store failed, the Result of the statement, the response.
Out(stage, kind, uid, path, body, target, fail, dbres, resp) ==
    [stage |-> stage, kind |-> kind, uid |-> uid, path |-> path, body |-> body,
     target |-> target, fail |-> fail, dbres |-> dbres, resp |-> resp]

NoOut == Out("none", "-", "-", 0, NoBody, "-", FALSE, "-", NoResponse)

\* What the row the path names is to the requester, when the statement runs.
TargetOf(tbl, post_id, uid) ==
    IF post_id \notin DOMAIN tbl THEN "absent"
    ELSE IF tbl[post_id].author_id = uid THEN "own" ELSE "foreign"

SysInit ==
    /\ users = InitUsers
    /\ posts = NoPosts
    /\ nextId = 1
    /\ reqs = [r \in Slots |-> Idle]
    /\ out = NoOut
    /\ results = [r \in Slots |-> NoOut]

UnitOff ==
    /\ unit_pc = "off"
    /\ unit_p = Plain(<<>>)
    /\ unit_q = Plain(<<>>)
    /\ unit_hash = PwErr("")
    /\ unit_cmp = CmpErr("")
    /\ rngDraws = 0


-----------------------------------------------------------------------------
(* The steps of a request task.  Each step that answers frees the task    *)
(* and leaves its answer in out; the answer is delivered (DeliverStep)     *)
(* before the next step is taken, so that answers are observed one at a    *)
(* time.  Delivering touches nothing else and commutes with every step.    *)

Finish(r, o) ==
    /\ reqs' = [reqs EXCEPT ![r] = Idle]
    /\ out' = o

\* A request for one of the routes in kinds arrives: the router runs the
\* layers of the route, the identity resolver among them, which reads the
\* user row.  A rejected request is answered here and never reaches a handler.
ArriveStep(r, kinds) ==
    /\ out = NoOut
    /\ reqs[r].pc = "idle"
    /\ \E kind \in kinds, token \in Tokens :
         LET a == auth(token, users)
         IN  IF kind \notin protected_routes
             THEN /\ reqs' = [reqs EXCEPT ![r] = Req("handler", kind, NoUser, NoBody)]
                  /\ out' = NoOut
             ELSE IF a.ok
             THEN /\ reqs' = [reqs EXCEPT ![r] = Req("handler", kind, a.user, NoBody)]
                  /\ out' = NoOut
             ELSE /\ reqs' = reqs
                  /\ out' = Out("auth", kind, "-", 0, NoBody, "-", FALSE, "-", a.resp)
    /\ UNCHANGED <<users, posts, nextId, unitVars>>

CreatePostStep(r) ==
    /\ out = NoOut
    /\ reqs[r].pc = "handler" /\ reqs[r].kind = "create_post"
    /\ \E body \in PostDtos, fail \in BOOLEAN :
         LET h == handler_create_post(posts, nextId, reqs[r].user, body, fail)
         IN  /\ h.dbres = "ok" => nextId <= MaxPosts
             /\ posts' = h.posts
             /\ nextId' = IF h.dbres = "ok" THEN nextId + 1 ELSE nextId
             /\ Finish(r, Out("handler", "create_post", reqs[r].user.id, nextId, body,
                              "-", fail, h.dbres, h.resp))
    /\ UNCHANGED <<users, unitVars>>

GetPostByIdStep(r) ==
    /\ out = NoOut
    /\ reqs[r].pc = "handler" /\ reqs[r].kind = "get_post_by_id"
    /\ \E post_id \in PostIds, fail \in BOOLEAN :
         LET h == handler_get_post_by_id(posts, reqs[r].user, post_id, fail)
         IN  /\ posts' = h.posts
             /\ Finish(r, Out("handler", "get_post_by_id", reqs[r].user.id, post_id, NoBody,
                              TargetOf(posts, post_id, reqs[r].user.id), fail, h.dbres, h.resp))
    /\ UNCHANGED <<users, nextId, unitVars>>

AllPostsStep(r, queries) ==
    /\ out = NoOut
    /\ reqs[r].pc = "handler" /\ reqs[r].kind = "all_posts"
    /\ \E query \in queries, order \in Orders(posts), checked \in BOOLEAN, fail \in BOOLEAN :
         LET h == handler_all_posts(posts, query, order, checked, fail)
         IN  /\ posts' = h.posts
             /\ Finish(r, Out("handler", "all_posts", reqs[r].user.id, 0, query,
                              "-", fail, h.dbres, h.resp))
    /\ UNCHANGED <<users, nextId, unitVars>>

UpdatePostStep(r) ==
    /\ out = NoOut
    /\ reqs[r].pc = "handler" /\ reqs[r].kind = "update_post"
    /\ \E post_id \in PostIds, body \in PostDtos, fail \in BOOLEAN :
         LET h == handler_update_post(posts, reqs[r].user, post_id, body, fail)
         IN  /\ posts' = h.posts
             /\ Finish(r, Out("handler", "update_post", reqs[r].user.id, post_id, body,
                              TargetOf(posts, post_id, reqs[r].user.id), fail, h.dbres, h.resp))
    /\ UNCHANGED <<users, nextId, unitVars>>

DeletePostStep(r) ==
    /\ out = NoOut
    /\ reqs[r].pc = "handler" /\ reqs[r].kind = "delete_post"
    /\ \E post_id \in PostIds, fail \in BOOLEAN :
         LET h == handler_delete_post(posts, reqs[r].user, post_id, fail)
         IN  /\ posts' = h.posts
             /\ Finish(r, Out("handler", "delete_post", reqs[r].user.id, post_id, NoBody,
                              TargetOf(posts, post_id, reqs[r].user.id), fail, h.dbres, h.resp))
    /\ UNCHANGED <<users, nextId, unitVars>>

GetMeStep(r) ==
    /\ out = NoOut
    /\ reqs[r].pc = "handler" /\ reqs[r].kind = "get_me"
    /\ Finish(r, Out("handler", "get_me", reqs[r].user.id, 0, NoBody, "-", FALSE, "-",
                     handler_get_me(reqs[r].user)))
    /\ UNCHANGED <<users, posts, nextId, unitVars>>

UpdateUserNameStep(r) ==
    /\ out = NoOut
    /\ reqs[r].pc = "handler" /\ reqs[r].kind = "update_user_name"
    /\ \E body \in NameUpdateDtos, fail \in BOOLEAN :
         LET h == handler_update_user_name(users, reqs[r].user, body, fail)
         IN  /\ users' = h.users
             /\ Finish(r, Out("handler", "update_user_name", reqs[r].user.id, 0, body,
                              "-", fail, h.dbres, h.resp))
    /\ UNCHANGED <<posts, nextId, unitVars>>

\* update_user_password up to the await of get_user.
PasswordGetUserStep(r) ==
    /\ out = NoOut
    /\ reqs[r].pc = "handler" /\ reqs[r].kind = "update_user_password"
    /\ \E body \in UserPasswordUpdateDtos, fail \in BOOLEAN :
         LET h == password_get_user(users, reqs[r].user, body, fail)
         IN  IF h.resp = NoResponse
             THEN /\ reqs' = [reqs EXCEPT ![r] = Req("password", "update_user_password",
                                                     reqs[r].user, body)]
                  /\ out' = NoOut
             ELSE Finish(r, Out("handler", "update_user_password", reqs[r].user.id, 0, body,
                                "-", fail, h.dbres, h.resp))
    /\ UNCHANGED <<users, posts, nextId, unitVars>>

\* update_user_password from compare_password to the response.
PasswordWriteStep(r) ==
    /\ out = NoOut
    /\ reqs[r].pc = "password"
    /\ \E salt \in Salts, fail \in BOOLEAN :
         LET h == password_write(users, reqs[r].user, reqs[r].body, salt, fail)
         IN  /\ users' = h.users
             /\ Finish(r, Out("handler", "update_user_password", reqs[r].user.id, 0,
                              reqs[r].body, "-", fail, h.dbres, h.resp))
    /\ UNCHANGED <<posts, nextId, unitVars>>

\* The answer of the last step goes out on its connection.
DeliverStep ==
    /\ out # NoOut
    /\ out' = NoOut
    /\ UNCHANGED <<users, posts, nextId, reqs, unitVars>>

\* Spec: the posts API under NumReqs concurrent request tasks.  The user
\* routes share with it only the identity context, of which the post handlers
\* read the id, which no statement writes; they are in ApiSpec.
Arrive(r) == ArriveStep(r, PostRoutes) /\ UNCHANGED results
CreatePost(r) == CreatePostStep(r) /\ UNCHANGED results
GetPostById(r) == GetPostByIdStep(r) /\ UNCHANGED results
AllPosts(r) == AllPostsStep(r, BasicQueries) /\ UNCHANGED results
UpdatePost(r) == UpdatePostStep(r) /\ UNCHANGED results
DeletePost(r) == DeletePostStep(r) /\ UNCHANGED results
Deliver == DeliverStep /\ UNCHANGED results

Init == SysInit /\ UnitOff

Next ==
    \/ \E r \in Slots :
        \/ Arrive(r)
        \/ CreatePost(r)
        \/ GetPostById(r)
        \/ AllPosts(r)
        \/ UpdatePost(r)
        \/ DeletePost(r)
    \/ Deliver

Spec == Init /\ [][Next]_vars

\* ApiSpec: every route of the router, one request after the other.
ApiArrive == ArriveStep(1, Routes) /\ UNCHANGED results
GetMe(r) == GetMeStep(r) /\ UNCHANGED results
UpdateUserName(r) == UpdateUserNameStep(r) /\ UNCHANGED results
PasswordGetUser(r) == PasswordGetUserStep(r) /\ UNCHANGED results
PasswordWrite(r) == PasswordWriteStep(r) /\ UNCHANGED results

ApiNext ==
    \/ ApiArrive
    \/ CreatePost(1)
    \/ GetPostById(1)
    \/ AllPosts(1)
    \/ UpdatePost(1)
    \/ DeletePost(1)
    \/ GetMe(1)
    \/ UpdateUserName(1)
    \/ PasswordGetUser(1)
    \/ PasswordWrite(1)
    \/ Deliver

ApiSpec == Init /\ [][ApiNext]_vars


-----------------------------------------------------------------------------
(* RaceSpec: one post, and an update_post and a delete_post of it in       *)
(* flight together, each past the identity resolver.  results keeps the    *)
(* Result of each.                                                         *)

RaceBodies == {b \in PostDtos : ValidPostDto(b)}

\* The post has id 1; task 1 is the update_post and task 2 the delete_post.
RaceInit ==
    /\ UnitOff
    /\ users = InitUsers
    /\ nextId = 2
    /\ out = NoOut
    /\ results = [r \in Slots |-> NoOut]
    /\ \E author \in UserIds, b \in RaceBodies :
         posts = create_post(NoPosts, 1, author, b.title, b.content).posts
    /\ \E u, d \in UserIds :
         reqs = [r \in Slots |->
                   IF r = 1 THEN Req("handler", "update_post", InitUsers[u], NoBody)
                   ELSE IF r = 2 THEN Req("handler", "delete_post", InitUsers[d], NoBody)
                   ELSE Idle]

RaceUpdate ==
    /\ UpdatePostStep(1)
    /\ out'.path = 1
    /\ results' = [results EXCEPT ![1] = out']

RaceDelete ==
    /\ DeletePostStep(2)
    /\ out'.path = 1
    /\ results' = [results EXCEPT ![2] = out']

RaceDeliver == DeliverStep /\ UNCHANGED results

RaceNext == RaceUpdate \/ RaceDelete \/ RaceDeliver

RaceSpec == RaceInit /\ [][RaceNext]_vars

-----------------------------------------------------------------------------
(* PwSpec: update_user_password under NumReqs concurrent request tasks.    *)
(* The identity context of a task is the user row the auth layer read when *)
(* the request arrived.                                                    *)

PwArrive(r) == ArriveStep(r, {"update_user_password"}) /\ UNCHANGED results

PwNext ==
    \/ \E r \in Slots :
        \/ PwArrive(r)
        \/ PasswordGetUser(r)
        \/ PasswordWrite(r)
    \/ Deliver

PwSpec == Init /\ [][PwNext]_vars

-----------------------------------------------------------------------------
(* PageSpec: all_posts called on a table of up to MaxListed posts.         *)

\* The tables of n posts, with ids 1..n.
Tables(n) ==
    {[p \in 1..n |-> PostRow(p, a[p], b[p].title, b[p].content)] :
        a \in [1..n -> UserIds], b \in [1..n -> RaceBodies]}

PageInit ==
    /\ UnitOff
    /\ users = InitUsers
    /\ out = NoOut
    /\ results = [r \in Slots |-> NoOut]
    /\ \E n \in 0..MaxListed : posts \in Tables(n) /\ nextId = n + 1
    /\ \E u \in UserIds :
         reqs = [r \in Slots |->
                   IF r = 1 THEN Req("handler", "all_posts", InitUsers[u], NoBody) ELSE Idle]

PageAllPosts == AllPostsStep(1, Queries) /\ UNCHANGED results

PageNext == PageAllPosts \/ Deliver

PageSpec == PageInit /\ [][PageNext]_vars

-----------------------------------------------------------------------------
(* UnitSpec: the functions of utils/password.rs and the handler get_users, *)
(* applied to inputs drawn from bounded sets.                              *)

Lens == (0..MaxPad) \cup ((MAX_PASSWORD - MaxPad)..(MAX_PASSWORD + MaxPad))
HalfLens == ((MAX_PASSWORD \div 2) - MaxPad)..((MAX_PASSWORD \div 2) + MaxPad)

Plaintexts ==
    {Plain(Rep(c, n)) : c \in Chars, n \in Lens}
    \cup {Plain(<<"b">> \o Rep("a", n - 1)) : n \in Lens \ {0}}
    \cup {Plain(Rep("E", n)) : n \in HalfLens}

UnitInit ==
    /\ SysInit
    /\ unit_pc = "start"
    /\ unit_p \in Plaintexts
    /\ unit_q \in Plaintexts
    /\ unit_hash = PwErr("")
    /\ unit_cmp = CmpErr("")
    /\ rngDraws = 0

\* hash_password(p).
HashPassword ==
    /\ unit_pc = "start"
    /\ \E salt \in Salts :
         /\ unit_hash' = hash_password(unit_p, salt)
         /\ rngDraws' = rngDraws + (IF unit_hash'.salted THEN 1 ELSE 0)
    /\ unit_pc' = "hashed"
    /\ UNCHANGED <<sysVars, unit_p, unit_q, unit_cmp>>

\* compare_password(hash_password(p), q).
ComparePassword ==
    /\ unit_pc = "hashed"
    /\ unit_hash.ok
    /\ unit_cmp' = compare_password(unit_hash.val, unit_q)
    /\ unit_pc' = "compared"
    /\ UNCHANGED <<sysVars, unit_p, unit_q, unit_hash, rngDraws>>

\* The handler get_users, called with a query.
GetUsers ==
    /\ unit_pc = "start"
    /\ \E query \in Queries, checked \in BOOLEAN, fail \in BOOLEAN :
         LET h == handler_get_users(users, query, checked, fail)
         IN  /\ users' = h.users
             /\ out' = Out("handler", "get_users", "-", 0, query, "-", fail, h.dbres, h.resp)
    /\ unit_pc' = "listed"
    /\ UNCHANGED <<posts, nextId, reqs, results, unit_p, unit_q, unit_hash, unit_cmp, rngDraws>>

UnitNext == HashPassword \/ ComparePassword \/ GetUsers

UnitSpec == UnitInit /\ [][UnitNext]_vars

-----------------------------------------------------------------------------
(* The properties.                                                         *)

\* The step just taken is a handler of one of kinds giving its answer.
Answers(kinds) == out = NoOut /\ out'.stage = "handler" /\ out'.kind \in kinds

Writers == {"update_post", "delete_post"}

\* C1: under every interleaving of the request tasks, an update_post or a
\* delete_post on a row of another author leaves the posts table as it was
\* and does not succeed: its statement, when it is made and the store does
\* not fail, returns RowNotFound.  A row changes or goes only in a step of an
\* update_post or delete_post of its own author.
C1_OwnerOnlyWrites ==
    [][ /\ Answers(Writers) /\ out'.target = "foreign"
           => /\ posts' = posts
              /\ out'.dbres # "ok"
              /\ (~out'.fail /\ (out'.kind = "update_post" => ValidPostDto(out'.body)))
                    => out'.dbres = "RowNotFound"
        /\ \A p \in DOMAIN posts :
             (p \notin DOMAIN posts' \/ posts'[p] # posts[p])
               => /\ Answers(Writers)
                  /\ out'.path = p
                  /\ out'.uid = posts[p].author_id
                  /\ out'.dbres = "ok" ]_vars

\* A non-author's update_post got RowNotFound while the author's own request
\* was in flight, and the row is still there.
C1_Witness ==
    /\ out.stage = "handler" /\ out.kind = "update_post"
    /\ out.target = "foreign" /\ out.dbres = "RowNotFound"
    /\ out.path \in DOMAIN posts
    /\ \E r \in Slots : /\ reqs[r].pc = "handler"
                        /\ reqs[r].kind \in Writers
                        /\ reqs[r].user.id = posts[out.path].author_id

\* Both tasks of the race have answered, both were the author's, neither
\* was turned away before its statement and the store did not fail.
RaceOfAuthor ==
    /\ results[1] # NoOut /\ results[2] # NoOut
    /\ results[1].uid = results[2].uid
    /\ results[1].target = "own" \/ results[2].target = "own"
    /\ ~results[1].fail /\ ~results[2].fail
    /\ ValidPostDto(results[1].body)

\* C2 as the specification states it: of the author's update_post and
\* delete_post of one row, in flight together, exactly one succeeds and the
\* other gets RowNotFound.
C2_ExactlyOneSucceeds ==
    RaceOfAuthor =>
        \/ results[1].dbres = "ok" /\ results[2].dbres = "RowNotFound"
        \/ results[1].dbres = "RowNotFound" /\ results[2].dbres = "ok"

\* C2, amended: the delete_post succeeds in either order; the update_post
\* succeeds when its statement finds the row, which is when it runs first,
\* and gets RowNotFound when the row is gone; so one or both succeed.  The
\* row is never seen half written: it is absent or carries a title and a
\* content of one request body; after both it is absent.
C2_RaceOutcomes ==
    /\ RaceOfAuthor =>
          /\ results[2].dbres = "ok"
          /\ results[1].target = "own" => results[1].dbres = "ok"
          /\ results[1].target = "absent" => results[1].dbres = "RowNotFound"
          /\ results[1].target # "foreign"
          /\ 1 \notin DOMAIN posts
    /\ 1 \in DOMAIN posts =>
          \E b \in RaceBodies : posts[1].title = b.title /\ posts[1].content = b.content
    /\ (results[1] # NoOut /\ results[2] = NoOut /\ results[1].target = "own"
           /\ ~results[1].fail /\ ValidPostDto(results[1].body))
          => /\ results[1].dbres = "ok"
             /\ 1 \in DOMAIN posts
             /\ posts[1].title = results[1].body.title
             /\ posts[1].content = results[1].body.content

\* The delete_post ran first and the author's update_post got RowNotFound.
C2_Witness ==
    /\ RaceOfAuthor
    /\ results[1].dbres = "RowNotFound"
    /\ results[2].dbres = "ok"

\* C3 as the specification states it: an update_post or delete_post whose
\* statement returns RowNotFound (the row is absent or another author's) is
\* answered 404, and one whose statement fails in the store is answered 500.
C3_NotFoundIs404 ==
    (out.stage = "handler" /\ out.kind \in Writers) =>
        /\ out.dbres = "RowNotFound" => out.resp.status = 404
        /\ out.dbres = "Database" => out.resp.status = 500

\* The posts table without the row post_id, and with a row post_id of an
\* author other than uid.
Without(tbl, post_id) == [p \in DOMAIN tbl \ {post_id} |-> tbl[p]]
WithForeign(tbl, post_id, uid) ==
    create_post(Without(tbl, post_id), post_id, CHOOSE a \in UserIds : a # uid, "t1", "c1").posts

\* The response of the writer of kind on the table tbl.
Rerun(kind, tbl, o) ==
    IF kind = "update_post"
    THEN handler_update_post(tbl, users[o.uid], o.path, o.body, o.fail).resp
    ELSE handler_delete_post(tbl, users[o.uid], o.path, o.fail).resp

\* C4: the response of update_post and of delete_post to a requester who is
\* not the author is the response the same request gets when the row does
\* not exist, and the response for a missing row is the one the request gets
\* when the row exists and is another author's: the two runs cannot be told
\* apart.
C4_NoExistenceLeak ==
    (out.stage = "handler" /\ out.kind \in Writers) =>
        /\ out.target = "foreign" => out.resp = Rerun(out.kind, Without(posts, out.path), out)
        /\ out.target = "absent" =>
              out.resp = Rerun(out.kind, WithForeign(posts, out.path, out.uid), out)

\* A delete_post of another author's row, past validation and with the
\* store up, has been answered.
C4_Witness ==
    /\ out.stage = "handler" /\ out.kind = "delete_post"
    /\ out.target = "foreign" /\ ~out.fail
    /\ out.path \in DOMAIN posts

\* C5: no step of create_post, update_post, delete_post, update_user_name or
\* update_user_password changes the author_id of a post that exists before
\* and after it, and a post that appears takes an id no post had before, so
\* every post keeps the author_id it was created with.
C5_AuthorImmutable ==
    [][ /\ \A p \in DOMAIN posts \cap DOMAIN posts' :
             posts'[p].author_id = posts[p].author_id
        /\ \A p \in DOMAIN posts' \ DOMAIN posts :
             /\ p = nextId /\ nextId' = nextId + 1
             /\ Answers({"create_post"}) /\ posts'[p].author_id = out'.uid
        /\ \A p \in DOMAIN posts : p < nextId
        /\ nextId' >= nextId ]_vars

\* A post was updated by its author after its author was renamed, and is
\* still its author's.
C5_Witness ==
    /\ out.stage = "handler" /\ out.kind = "update_post" /\ out.dbres = "ok"
    /\ out.path \in DOMAIN posts
    /\ posts[out.path].author_id = out.uid
    /\ posts[out.path].title = out.body.title
    /\ users[out.uid].name = "carol"

\* C6 as the specification states it: no response of a handler carries a
\* user's password field.
C6_NoPasswordInResponses ==
    out.stage = "handler" => ~CarriesPassword(out.resp)

C8_SixtyFourCharacters ==
    unit_pc \in {"hashed", "compared"} =>
        IF CharCount(unit_p) \in 1..MAX_PASSWORD
        THEN unit_hash.ok
        ELSE ~unit_hash.ok /\ ~unit_hash.salted /\ rngDraws = 0

\* A request task past the router carries the identity the auth layer
\* resolved from a user row.
Resolved ==
    \A r \in Slots :
        reqs[r].pc # "idle" =>
            /\ reqs[r].kind \in Routes
            /\ reqs[r].user # NoUser
            /\ reqs[r].user.id \in DOMAIN users

\* C9: every user route and every post route is behind the auth layer.  A
\* request the layer rejects is answered 401 in that step, which starts no
\* handler and writes no table; every handler that answers, and every step
\* that writes users or posts, belongs to a request task whose identity the
\* layer resolved.
C9_AuthBeforeHandlers ==
    [][ /\ Resolved /\ Resolved'
        /\ (out = NoOut /\ out'.stage = "auth")
              => /\ out'.resp.status = 401
                 /\ UNCHANGED <<users, posts, nextId, reqs>>
        /\ (Answers(Routes) \/ users' # users \/ posts' # posts \/ nextId' # nextId)
              => /\ Answers(Routes)
                 /\ out'.resp # MissingExtension
                 /\ \E r \in Slots : /\ reqs[r].pc \in {"handler", "password"}
                                     /\ reqs[r].kind = out'.kind
                                     /\ reqs[r].user.id = out'.uid
                                     /\ reqs'[r] = Idle ]_vars

\* A delete_post without a valid token was answered 401 while a post
\* existed, and no request task was started.
C9_Witness ==
    /\ out.stage = "auth" /\ out.kind = "delete_post" /\ out.resp.status = 401
    /\ DOMAIN posts # {}
    /\ \A r \in Slots : reqs[r] = Idle

\* C10: get_post_by_id of an existing row answers 200 with the row, whoever
\* the authenticated requester is, unless the store fails, and the step
\* leaves the posts and users tables as they were.
C10_ReadNotOwnershipGated ==
    [][ Answers({"get_post_by_id"})
          => /\ posts' = posts /\ users' = users /\ nextId' = nextId
             /\ out'.uid \in UserIds
             /\ (out'.path \in DOMAIN posts /\ ~out'.fail)
                   => out'.resp = Response(200, PostJson(posts[out'.path])) ]_vars

\* A requester who is not the author read the row.
C10_Witness ==
    /\ out.stage = "handler" /\ out.kind = "get_post_by_id"
    /\ out.target = "foreign"
    /\ out.resp = Response(200, PostJson(posts[out.path]))

\* Whether the plaintext verifies against the stored hash.
Verifies(hash, plain) == compare_password(hash, plain) = CmpOk(TRUE)

\* C11 as the specification states it: an update_user_password with a
\* well-formed body, the store up, is answered WrongCredentials and leaves
\* the stored hash as it was when old_password does not verify against the
\* stored hash, and when it does, succeeds and stores a hash against which
\* new_password verifies.
C11_PasswordChange ==
    [][ (/\ Answers({"update_user_password"})
         /\ ValidUserPasswordUpdateDto(out'.body)
         /\ ~out'.fail)
          => IF Verifies(users[out'.uid].password, out'.body.old_password)
             THEN /\ out'.dbres = "ok" /\ out'.resp.status = 200
                  /\ users'[out'.uid].password.phc
                  /\ Verifies(users'[out'.uid].password, out'.body.new_password)
             ELSE /\ out'.resp = bad_request("WrongCredentials")
                  /\ users' = users ]_vars

\* C12: a create_post or update_post whose title or content is empty is
\* answered 400 without a statement being made, whether or not the store is
\* up: the posts table and the next post id are as they were.
C12_ValidationBeforeStore ==
    [][ (/\ Answers({"create_post", "update_post"})
         /\ out'.body.title = "" \/ out'.body.content = "")
          => /\ out'.resp.status = 400
             /\ out'.dbres = "-"
             /\ posts' = posts /\ nextId' = nextId /\ users' = users ]_vars

\* The author's update_post with an empty title or content was answered 400
\* while the store was down, and the row is there.
C12_Witness ==
    /\ out.stage = "handler" /\ out.kind = "update_post"
    /\ out.body.title = "" \/ out.body.content = ""
    /\ out.resp.status = 400
    /\ out.target = "own" /\ out.fail
    /\ out.path \in DOMAIN posts

\* C13: a post appears only in a successful create_post step, one post a
\* step, and its author_id is the id of the identity context of the request
\* task that took the step.  That author_id stays, and a row changes or goes
\* only in a step whose requester is its author: the user whose request
\* created a post is the only one who can update or delete it.
C13_AuthorIsCreator ==
    [][ /\ \A p \in DOMAIN posts' \ DOMAIN posts :
             /\ DOMAIN posts' = DOMAIN posts \cup {p}
             /\ Answers({"create_post"}) /\ out'.dbres = "ok" /\ out'.path = p
             /\ \E r \in Slots : /\ reqs[r].pc = "handler" /\ reqs[r].kind = "create_post"
                                 /\ reqs'[r] = Idle
                                 /\ reqs[r].user.id \in UserIds
                                 /\ posts'[p].author_id = reqs[r].user.id
                                 /\ out'.uid = reqs[r].user.id
        /\ \A p \in DOMAIN posts :
             /\ p \in DOMAIN posts' => posts'[p].author_id = posts[p].author_id
             /\ (p \notin DOMAIN posts' \/ posts'[p] # posts[p])
                  => \E r \in Slots : /\ reqs[r].pc = "handler" /\ reqs'[r] = Idle
                                      /\ reqs[r].kind \in Writers
                                      /\ reqs[r].user.id = posts[p].author_id ]_vars

\* A create_post succeeded while a request of another user was in flight,
\* and the post carries the id of its requester.
C13_Witness ==
    /\ out.stage = "handler" /\ out.kind = "create_post" /\ out.dbres = "ok"
    /\ out.path \in DOMAIN posts
    /\ posts[out.path].author_id = out.uid
    /\ \E r \in Slots : reqs[r].pc = "handler" /\ reqs[r].user.id # out.uid

PageOf(rows, offset, limit) ==
    SubSeq(rows, offset + 1,
           IF offset + limit < Len(rows) THEN offset + limit ELSE Len(rows))

\* C15 as the specification states it: for a validated query, computing
\* (page - 1) * limit, the conversion of page to u32 included, neither
\* underflows nor overflows nor loses the page, and all_posts answers with
\* at most limit posts, the ones at that offset in the order of the listing.
C15_Paging ==
    (/\ out.stage = "handler" /\ out.kind = "all_posts"
     /\ ValidRequestQueryDto(out.body) /\ ~out.fail)
      => LET page == IF out.body.page = NonePage THEN Small(1) ELSE out.body.page
             limit == IF out.body.limit = None THEN 10 ELSE out.body.limit
         IN  /\ AsU32(page) = page
             /\ ~OffsetOverflows(AsU32(page), limit)
             /\ out.resp.status = 200
             /\ Len(out.resp.body.items) <= limit
             /\ \E order \in Orders(posts) :
                  out.resp.body.items =
                      PageOf([i \in DOMAIN order |-> posts[order[i]]],
                             (page.lo - 1) * limit, limit)

=============================================================================
